---- MODULE Spec2Model ----
(***************************************************************************)
(* A model of app/orchestrator.py of the Arkab orchestrator: the Memory    *)
(* store (remember, decay_memories), the decision rule of                  *)
(* LivingCyberSecuritySystem.process_evidence, the HealingSystem and the   *)
(* HTTP handlers (/health, /metrics, /evidence/batch).                     *)
(*                                                                         *)
(* Numbers.  Python floats are modelled in fixed point:                    *)
(*   - a confidence c is the integer c * ConfScale (thousandths);          *)
(*   - a weight w is the integer w * WeightScale (millionths), and the     *)
(*     product w * 0.99 is truncated to a whole number of millionths.      *)
(* Time.  The clock is a count of ticks, TicksPerSecond ticks to a second, *)
(* so that two instants can differ and still lie in one clock second.      *)
(* asyncio runs one coroutine at a time and process_evidence never         *)
(* suspends, so an operation is one atomic step; SpecLoop takes the batch  *)
(* handler and remember() apart into their statements to check just that.  *)
(***************************************************************************)
EXTENDS Integers, Sequences, FiniteSets, TLC

\* ---------------------------------------------------------------- bounds
MaxMemorySize == 2      \* largest configured memory_size explored
MaxCalls == 3           \* remember() calls in one behaviour
MaxClock == 2           \* last clock tick explored
MaxDecays == 2          \* decay_memories() calls in one behaviour (Spec)
LongDecays == 231       \* decay_memories() calls in one behaviour (SpecDecay)
TicksPerSecond == 2     \* clock resolution of the model
MaxBatch == 2           \* items in one request body

\* ------------------------------------------------------- number encoding
ConfScale == 1000       \* 1.0 as a confidence
WeightScale == 1000000  \* 1.0 as a weight

\* ------------------------------------------------------------- constants
ConfCap == 900          \* min(0.9, ...)              orchestrator.py:160
ConfBoost == 100        \* evidence.confidence + 0.1  orchestrator.py:160
ConfFloor == 300        \* max(0.3, ...)              orchestrator.py:168
ConfPenalty == 100      \* evidence.confidence - 0.1  orchestrator.py:168
DecayNum == 99          \* * 0.99                     orchestrator.py:90
DecayDen == 100

Min(a, b) == IF a <= b THEN a ELSE b
Max(a, b) == IF a >= b THEN a ELSE b

\* ----------------------------------------------------------------- enums
\* class ThreatLevel(Enum) and class ActionType(Enum): members by name,
\* .value by ThreatLevelValue / ActionTypeValue.
ThreatLevel == {"BENIGN", "SUSPICIOUS", "CRITICAL"}
ActionType == {"MONITOR", "BLOCK", "ALERT"}

ThreatLevelValue(t) ==
    CASE t = "BENIGN" -> "benign"
      [] t = "SUSPICIOUS" -> "suspicious"
      [] t = "CRITICAL" -> "critical"

ActionTypeValue(a) ==
    CASE a = "MONITOR" -> "monitor"
      [] a = "BLOCK" -> "block"
      [] a = "ALERT" -> "alert"

\* datetime.isoformat(): a string carrying the instant.
IsoFormat(t) == <<"iso", t>>

\* ---------------------------------------------------------------- inputs
Entities == {"server-db", "iot-1"}
\* Evidence.confidence is an unconstrained float: 1200 (1.2) is accepted too.
Confidences == {0, 300, 500, 600, 800, 1000, 1200}

\* class Evidence(BaseModel)
Evidence ==
    [source : {"sensor-2"}, timestamp : {0}, entity_id : Entities,
     threat_level : ThreatLevel, confidence : Confidences,
     metrics : {"m"}]

\* The Evidence and the Decision of test_memory_decay, which calls
\* Memory.remember directly.
TestEvidence ==
    [source |-> "sensor-3", timestamp |-> 0, entity_id |-> "iot-1",
     threat_level |-> "BENIGN", confidence |-> 300, metrics |-> "m"]

TestDecision ==
    [decision_id |-> <<"dec1">>, timestamp |-> 0, entity_id |-> "iot-1",
     action |-> "MONITOR", confidence |-> 300, reasoning |-> "low threat",
     evidence_count |-> 1]

\* Evidence.to_dict
EvidenceToDict(e) ==
    [source |-> e.source, timestamp |-> IsoFormat(e.timestamp),
     entity_id |-> e.entity_id,
     threat_level |-> ThreatLevelValue(e.threat_level),
     confidence |-> e.confidence, metrics |-> e.metrics]

\* Decision.to_dict
DecisionToDict(d) ==
    [decision_id |-> d.decision_id, timestamp |-> IsoFormat(d.timestamp),
     entity_id |-> d.entity_id, action |-> ActionTypeValue(d.action),
     confidence |-> d.confidence, reasoning |-> d.reasoning,
     evidence_count |-> d.evidence_count]

\* ---------------------------------------------------------------- Memory
\* Memory.remember, on the list mem of a store of capacity maxsz at
\* instant t.  serial is the number of this insertion: it is no field of
\* the program's entry, it only tells the insertions apart.
RememberNoEvict(mem, e, d, t, maxsz, serial) ==
    Append(mem, [evidence |-> EvidenceToDict(e),
                 decision |-> DecisionToDict(d),
                 timestamp |-> IsoFormat(t),
                 weight |-> WeightScale,
                 serial |-> serial])

RememberEvictNewest(mem, e, d, t, maxsz, serial) ==
    LET appended == RememberNoEvict(mem, e, d, t, maxsz, serial)
    IN  IF Len(appended) > maxsz
        THEN SubSeq(appended, 1, Len(appended) - 1)
        ELSE appended

Remember(mem, e, d, t, maxsz, serial) ==
    LET appended ==
            Append(mem, [evidence |-> EvidenceToDict(e),
                         decision |-> DecisionToDict(d),
                         timestamp |-> IsoFormat(t),
                         weight |-> WeightScale,
                         serial |-> serial])
    IN  IF Len(appended) > maxsz
        THEN Tail(appended)       \* self.memories.pop(0)
        ELSE appended

\* memory["weight"] * 0.99
DecayWeight(w) == (w * DecayNum) \div DecayDen

DecayedPruning(mem) ==
    SelectSeq([i \in DOMAIN mem |->
                  [mem[i] EXCEPT !.weight = DecayWeight(@)]],
              LAMBDA entry : entry.weight * DecayDen >= WeightScale * DecayNum)

\* Memory.decay_memories, on the list mem
Decayed(mem) ==
    [i \in DOMAIN mem |-> [mem[i] EXCEPT !.weight = DecayWeight(@)]]

\* ------------------------------------------------------- Decision Engine
\* The rule of process_evidence: the action, the confidence and the
\* reasoning for an evidence.
ClassifyNoCap(e) ==
    IF e.threat_level = "CRITICAL"
    THEN [action |-> "BLOCK",
          confidence |-> e.confidence + ConfBoost,
          reasoning |-> "Critical threat detected - immediate action required"]
    ELSE IF e.threat_level = "SUSPICIOUS"
    THEN [action |-> "ALERT",
          confidence |-> e.confidence,
          reasoning |-> "Suspicious activity requires monitoring"]
    ELSE [action |-> "MONITOR",
          confidence |-> Max(ConfFloor, e.confidence - ConfPenalty),
          reasoning |-> "Benign activity - continue monitoring"]

Classify(e) ==
    IF e.threat_level = "CRITICAL"
    THEN [action |-> "BLOCK",
          confidence |-> Min(ConfCap, e.confidence + ConfBoost),
          reasoning |-> "Critical threat detected - immediate action required"]
    ELSE IF e.threat_level = "SUSPICIOUS"
    THEN [action |-> "ALERT",
          confidence |-> e.confidence,
          reasoning |-> "Suspicious activity requires monitoring"]
    ELSE [action |-> "MONITOR",
          confidence |-> Max(ConfFloor, e.confidence - ConfPenalty),
          reasoning |-> "Benign activity - continue monitoring"]

\* f"dec_{evidence.entity_id}_{int(datetime.now().timestamp())}"
DecisionId(entity, t) == <<"dec", entity, t \div TicksPerSecond>>

\* The Decision process_evidence builds for e at instant t.
MakeDecision(e, t) ==
    LET c == Classify(e)
    IN  [decision_id |-> DecisionId(e.entity_id, t),
         timestamp |-> t,
         entity_id |-> e.entity_id,
         action |-> c.action,
         confidence |-> c.confidence,
         reasoning |-> c.reasoning,
         evidence_count |-> 1]

\* --------------------------------------------------------- HealingSystem
\* What the Metrics Source (psutil) gives to one monitor_health call: the
\* three percentages, and which of the three samplings raises, if any.
Usages == {50, 85, 90, 95}
Samples ==
    [cpu : Usages, memory : Usages, disk : Usages, fails : {"none"}]
    \cup [cpu : {0}, memory : {0}, disk : {0},
          fails : {"cpu", "memory", "disk"}]

\* HealingSystem.monitor_health: what the call does with the sample s,
\* return a snapshot or raise.
MonitorHealthNoCatch(s) ==
    IF s.fails = "none"
    THEN [raised |-> FALSE,
          value |-> [cpu_usage |-> s.cpu, memory_usage |-> s.memory,
                     disk_usage |-> s.disk, status |-> "healthy",
                     error |-> "absent"]]
    ELSE [raised |-> TRUE,
          value |-> [cpu_usage |-> 0, memory_usage |-> 0, disk_usage |-> 0,
                     status |-> "absent", error |-> s.fails]]

MonitorHealth(s) ==
    IF s.fails = "none"
    THEN [raised |-> FALSE,
          value |-> [cpu_usage |-> s.cpu, memory_usage |-> s.memory,
                     disk_usage |-> s.disk, status |-> "healthy",
                     error |-> "absent"]]
    ELSE [raised |-> FALSE,         \* except Exception as e
          value |-> [cpu_usage |-> 0, memory_usage |-> 0, disk_usage |-> 0,
                     status |-> "error", error |-> s.fails]]

\* The samples given to the calls that only pass the snapshot on.
ProbeSamples == {s \in Samples : s.cpu = s.memory /\ s.memory = s.disk}

\* The thresholds of diagnose_problems, in percent.
CpuThreshold == 80
MemoryThreshold == 90
DiskThreshold == 85

\* The problem strings, word by word: "CPU" in problem is a word of it.
HighCpu == <<"High", "CPU", "usage">>
HighMemory == <<"High", "memory", "usage">>
HighDisk == <<"High", "disk", "usage">>

\* HealingSystem.diagnose_problems, on the snapshot h monitor_health gave
Diagnose(h) ==
    (IF h.cpu_usage > CpuThreshold THEN <<HighCpu>> ELSE <<>>)
    \o (IF h.memory_usage > MemoryThreshold THEN <<HighMemory>> ELSE <<>>)
    \o (IF h.disk_usage > DiskThreshold THEN <<HighDisk>> ELSE <<>>)

\* "CPU" in problem
Contains(problem, word) == \E i \in DOMAIN problem : problem[i] = word

\* HealingSystem.self_heal
RECURSIVE SelfHealActions(_)
SelfHealActions(problems) ==
    IF problems = <<>> THEN <<>>
    ELSE LET problem == Head(problems)
             rest == SelfHealActions(Tail(problems))
         IN  IF Contains(problem, "CPU")
             THEN <<"Reduced process priority">> \o rest
             ELSE IF Contains(problem, "memory")
             THEN <<"Cleared memory cache">> \o rest
             ELSE IF Contains(problem, "disk")
             THEN <<"Cleaned temporary files">> \o rest
             ELSE rest

\* The lists self_heal is given: what diagnose_problems can return.
ProblemLists ==
    {Diagnose([cpu_usage |-> s.cpu, memory_usage |-> s.memory,
               disk_usage |-> s.disk]) : s \in Samples}

\* ------------------------------------------------- POST /evidence/batch
\* ThreatLevel(value): the member with that value; ValueError if none.
ThreatLevelKnown(v) == \E t \in ThreatLevel : ThreatLevelValue(t) = v
ThreatLevelOf(v) == CHOOSE t \in ThreatLevel : ThreatLevelValue(t) = v

\* datetime.fromisoformat
FromIsoFormat(str) == str[2]

\* The items of a request body: the two of the end-to-end scenario, one
\* with an unknown threat level and one with a confidence of 1.5.
BatchItems ==
    {[source |-> "sensor-api", timestamp |-> IsoFormat(0),
      entity_id |-> "server-db", threat_level |-> "critical",
      confidence |-> 950, metrics |-> "m"],
     [source |-> "sensor-api", timestamp |-> IsoFormat(0),
      entity_id |-> "iot-1", threat_level |-> "suspicious",
      confidence |-> 500, metrics |-> "m"],
     [source |-> "sensor-api", timestamp |-> IsoFormat(0),
      entity_id |-> "iot-1", threat_level |-> "severe",
      confidence |-> 500, metrics |-> "m"],
     [source |-> "sensor-api", timestamp |-> IsoFormat(0),
      entity_id |-> "server-db", threat_level |-> "critical",
      confidence |-> 1500, metrics |-> "m"]}

\* The conversions of the loop body and Evidence(**evidence_data), for an
\* item whose threat level is known.
ToEvidence(item) ==
    [source |-> item.source, timestamp |-> FromIsoFormat(item.timestamp),
     entity_id |-> item.entity_id,
     threat_level |-> ThreatLevelOf(item.threat_level),
     confidence |-> item.confidence, metrics |-> item.metrics]

\* What the handler has done so far: st.store is the list memories,
\* st.count the remember() calls made, st.decisions the handler's list.
\* One pass of the loop body for an item that converts.
BatchStepPrepending(st, item, t, maxsz) ==
    LET e == ToEvidence(item)
        d == MakeDecision(e, t)
    IN  [failed |-> FALSE,
         store |-> Remember(st.store, e, d, t, maxsz, st.count + 1),
         count |-> st.count + 1,
         ids |-> Append(st.ids, d.decision_id),
         lastCall |-> [called |-> TRUE, evidence |-> e, decision |-> d],
         decisions |-> <<DecisionToDict(d)>> \o st.decisions]

BatchStep(st, item, t, maxsz) ==
    LET e == ToEvidence(item)
        d == MakeDecision(e, t)
    IN  [failed |-> FALSE,
         store |-> Remember(st.store, e, d, t, maxsz, st.count + 1),
         count |-> st.count + 1,
         ids |-> Append(st.ids, d.decision_id),
         lastCall |-> [called |-> TRUE, evidence |-> e, decision |-> d],
         decisions |-> Append(st.decisions, DecisionToDict(d))]

RECURSIVE RunBatchPrepending(_, _, _, _)
RunBatchPrepending(items, st, t, maxsz) ==
    IF items = <<>> THEN st
    ELSE IF ~ThreatLevelKnown(Head(items).threat_level)
    THEN [st EXCEPT !.failed = TRUE]
    ELSE RunBatchPrepending(Tail(items),
                            BatchStepPrepending(st, Head(items), t, maxsz),
                            t, maxsz)

RECURSIVE RunBatchUnchecked(_, _, _, _)
RunBatchUnchecked(items, st, t, maxsz) ==
    IF items = <<>> THEN st
    ELSE RunBatchUnchecked(Tail(items), BatchStep(st, Head(items), t, maxsz),
                           t, maxsz)

RunBatchAllOrNothing(items, st, t, maxsz) ==
    IF \E i \in DOMAIN items : ~ThreatLevelKnown(items[i].threat_level)
    THEN [st EXCEPT !.failed = TRUE]
    ELSE RunBatchUnchecked(items, st, t, maxsz)

\* The loop of process_evidence_batch over items: it ends at the first item
\* whose conversion raises.
RECURSIVE RunBatch(_, _, _, _)
RunBatch(items, st, t, maxsz) ==
    IF items = <<>> THEN st
    ELSE IF ~ThreatLevelKnown(Head(items).threat_level)
    THEN [st EXCEPT !.failed = TRUE]   \* ThreatLevel(...) raises ValueError
    ELSE RunBatch(Tail(items), BatchStep(st, Head(items), t, maxsz),
                  t, maxsz)

\* --------------------------------------------------------------- objects
\* Evidence.metrics is a reference to a dict; "m" names the dict of every
\* Evidence above.
MetricsRefs == {"m"}

\* The tasks that run POST /evidence/batch concurrently.
TaskIds == {"t1", "t2"}

\* A task that has not received its request yet.
IdleTask == [pc |-> "idle"]

\* ----------------------------------------------------------------- state
VARIABLES
    max_size,     \* Memory.max_size
    memories,     \* Memory.memories
    now,          \* the clock, in ticks
    ncalls,       \* remember() calls made so far
    ndecays,      \* decay_memories() calls made so far
    issued,       \* the decision_id of every Decision returned so far
    last,         \* the last process_evidence call: its evidence and Decision
    decayedAt,    \* the instant of the decay_memories() call that was the
                  \* last operation on the store, -1 if the last was no decay
    hop,          \* the last operation of the health path, "none" at first
    sample,       \* what the Metrics Source gave to that operation
    health,       \* what monitor_health did in it (returned or raised)
    problems,     \* the last list diagnose_problems returned
    healing,      \* the last self_heal call: its input and its result
    reply,        \* the last reply of GET /health or GET /metrics
    batch,        \* the last batch POST /evidence/batch has finished
    response,     \* the response to it
    processed,    \* how many of its items process_evidence has returned for
    lenBefore,    \* len(memories) when it was submitted
    held,         \* the Evidence and Decision objects a caller of
                  \* Memory.remember holds
    heap,         \* the contents of each metrics dict, by reference
    running,      \* the coroutine the event loop is running, "none" if idle
    tasks         \* the POST /evidence/batch coroutines, by task

healthVars == <<hop, sample, health, problems, healing, reply>>
batchVars == <<batch, response, processed, lenBefore>>
callerVars == <<held, heap>>
loopVars == <<running, tasks>>
storeVars == <<max_size, memories, now, ncalls, ndecays, issued, last,
               decayedAt>>

vars ==
    <<max_size, memories, now, ncalls, ndecays, issued, last, decayedAt,
      healthVars, batchVars, callerVars, loopVars>>

\* last, and every other record of a call, before any such call
NoCall == [called |-> FALSE]

\* Memory.__init__ by LivingCyberSecuritySystem.__init__
Init ==
    /\ max_size \in 1..MaxMemorySize
    /\ memories = <<>>
    /\ now = 0
    /\ ncalls = 0
    /\ ndecays = 0
    /\ issued = <<>>
    /\ last = NoCall
    /\ decayedAt = -1
    /\ hop = "none"
    /\ sample = NoCall
    /\ health = NoCall
    /\ problems = <<>>
    /\ healing = NoCall
    /\ reply = NoCall
    /\ batch = <<>>
    /\ response = NoCall
    /\ processed = 0
    /\ lenBefore = 0
    /\ held = [evidence |-> TestEvidence, decision |-> TestDecision]
    /\ heap = [r \in MetricsRefs |-> [activity |-> 5]]
    /\ running = "none"
    /\ tasks = [t \in TaskIds |-> IdleTask]

\* LivingCyberSecuritySystem.process_evidence(e)
ProcessEvidence(e) ==
    /\ ncalls < MaxCalls
    /\ LET decision == MakeDecision(e, now)
       IN  /\ memories' = Remember(memories, e, decision, now, max_size,
                                   ncalls + 1)
           /\ issued' = Append(issued, decision.decision_id)
           /\ last' = [called |-> TRUE, evidence |-> e,
                      decision |-> decision]
    /\ ncalls' = ncalls + 1
    /\ decayedAt' = -1
    /\ UNCHANGED <<max_size, now, ndecays, healthVars, batchVars, callerVars,
                   loopVars>>

\* Memory.remember(e, d), called on the store directly
MemoryRemember(e, d) ==
    /\ ncalls < MaxCalls
    /\ memories' = Remember(memories, e, d, now, max_size, ncalls + 1)
    /\ ncalls' = ncalls + 1
    /\ decayedAt' = -1
    /\ UNCHANGED <<max_size, now, ndecays, issued, last, healthVars, batchVars,
                   callerVars, loopVars>>

\* Memory.decay_memories(), at most limit times in a behaviour
DecayMemories(limit) ==
    /\ ndecays < limit
    /\ memories' = Decayed(memories)
    /\ ndecays' = ndecays + 1
    /\ decayedAt' = now
    /\ UNCHANGED <<max_size, now, ncalls, issued, last, healthVars, batchVars,
                   callerVars, loopVars>>

\* The clock advances.
Tick ==
    /\ now < MaxClock
    /\ now' = now + 1
    /\ UNCHANGED <<max_size, memories, ncalls, ndecays, issued, last,
                   decayedAt, healthVars, batchVars, callerVars, loopVars>>

\* The evidence submitted in Spec: one per entity.
StoreEvidence ==
    {e \in Evidence : e.threat_level = "CRITICAL" /\ e.confidence = 800}

Next ==
    \/ \E e \in StoreEvidence : ProcessEvidence(e)
    \/ MemoryRemember(TestEvidence, TestDecision)
    \/ DecayMemories(MaxDecays)
    \/ Tick

Spec == Init /\ [][Next]_vars

\* The decision rule over every evidence of the input grid.
NextRule == \E e \in Evidence : ProcessEvidence(e)

SpecRule == Init /\ [][NextRule]_vars

\* A store of capacity 1 under a long run of decays.
InitDecay == Init /\ max_size = 1

NextDecay ==
    \/ MemoryRemember(TestEvidence, TestDecision)
    \/ DecayMemories(LongDecays)

SpecDecay == InitDecay /\ [][NextDecay]_vars

\* ------------------------------------------------------------ health path
\* Each operation of the health path records what it was given and what
\* it returned, and clears the record of the one before.

\* HealingSystem.monitor_health(), the Metrics Source giving s
MonitorHealthCall(s) ==
    /\ hop' = "monitor_health"
    /\ sample' = s
    /\ health' = MonitorHealth(s)
    /\ problems' = <<>>
    /\ healing' = NoCall
    /\ reply' = NoCall
    /\ UNCHANGED <<storeVars, batchVars, callerVars, loopVars>>

\* HealingSystem.diagnose_problems(), the Metrics Source giving s; the
\* call ends where monitor_health raises.
DiagnoseProblems(s) ==
    /\ hop' = "diagnose_problems"
    /\ sample' = s
    /\ health' = MonitorHealth(s)
    /\ problems' = IF health'.raised THEN <<>> ELSE Diagnose(health'.value)
    /\ healing' = NoCall
    /\ reply' = NoCall
    /\ UNCHANGED <<storeVars, batchVars, callerVars, loopVars>>

SelfHealClearing(ps) ==
    /\ hop' = "self_heal"
    /\ sample' = NoCall
    /\ health' = NoCall
    /\ problems' = <<>>
    /\ healing' = [called |-> TRUE, input |-> ps,
                   actions |-> SelfHealActions(ps)]
    /\ reply' = NoCall
    /\ memories' = IF \E i \in DOMAIN ps : Contains(ps[i], "memory")
                    THEN <<>> ELSE memories
    /\ UNCHANGED <<max_size, now, ncalls, ndecays, issued, last, decayedAt,
                   batchVars, callerVars, loopVars>>

\* HealingSystem.self_heal(ps)
SelfHeal(ps) ==
    /\ hop' = "self_heal"
    /\ sample' = NoCall
    /\ health' = NoCall
    /\ problems' = <<>>
    /\ healing' = [called |-> TRUE, input |-> ps,
                   actions |-> SelfHealActions(ps)]
    /\ reply' = NoCall
    /\ UNCHANGED <<storeVars, batchVars, callerVars, loopVars>>

\* GET /health
HealthCheck(s) ==
    /\ hop' = "health_check"
    /\ sample' = s
    /\ health' = MonitorHealth(s)
    /\ problems' = <<>>
    /\ healing' = NoCall
    /\ reply' = IF health'.raised THEN [called |-> TRUE, code |-> 500]
                ELSE [called |-> TRUE, code |-> 200, status |-> "ok",
                      system_health |-> health'.value,
                      timestamp |-> IsoFormat(now)]
    /\ UNCHANGED <<storeVars, batchVars, callerVars, loopVars>>

\* GET /metrics
GetMetrics(s) ==
    /\ hop' = "get_metrics"
    /\ sample' = s
    /\ health' = MonitorHealth(s)
    /\ problems' = <<>>
    /\ healing' = NoCall
    /\ reply' = IF health'.raised THEN [called |-> TRUE, code |-> 500]
                ELSE [called |-> TRUE, code |-> 200,
                      memory_count |-> Len(memories),
                      system_health |-> health'.value,
                      timestamp |-> IsoFormat(now)]
    /\ UNCHANGED <<storeVars, batchVars, callerVars, loopVars>>

\* The health path beside evidence processing.
NextHealth ==
    \/ \E s \in ProbeSamples : MonitorHealthCall(s)
    \/ \E s \in Samples : DiagnoseProblems(s)
    \/ \E ps \in ProblemLists : SelfHeal(ps)
    \/ \E s \in ProbeSamples : HealthCheck(s)
    \/ \E s \in ProbeSamples : GetMetrics(s)
    \/ MemoryRemember(TestEvidence, TestDecision)
    \/ DecayMemories(MaxDecays)

SpecHealth == Init /\ [][NextHealth]_vars

\* ---------------------------------------------------------------- batch
Batches ==
    UNION {[1..n -> BatchItems] : n \in 0..MaxBatch}

\* POST /evidence/batch with the body b, run to its response
ProcessEvidenceBatch(b) ==
    /\ ncalls + Len(b) <= MaxCalls
    /\ LET r == RunBatch(b, [failed |-> FALSE, store |-> memories,
                             count |-> ncalls, ids |-> issued,
                             lastCall |-> last, decisions |-> <<>>],
                         now, max_size)
       IN  /\ memories' = r.store
           /\ ncalls' = r.count
           /\ issued' = r.ids
           /\ last' = r.lastCall
           /\ decayedAt' = IF r.count = ncalls THEN decayedAt ELSE -1
           /\ processed' = r.count - ncalls
           /\ response' =
                  IF r.failed
                  THEN [called |-> TRUE, code |-> 503,
                        detail |-> "Processing error", decisions |-> <<>>]
                  ELSE [called |-> TRUE, code |-> 200,
                        status |-> "success",
                        processed_count |-> Len(r.decisions),
                        decisions |-> r.decisions,
                        timestamp |-> IsoFormat(now)]
    /\ batch' = b
    /\ lenBefore' = Len(memories)
    /\ UNCHANGED <<max_size, now, ndecays, healthVars, callerVars, loopVars>>

NextBatch == \E b \in Batches : ProcessEvidenceBatch(b)

SpecBatch == Init /\ [][NextBatch]_vars

\* --------------------------------------------------------------- caller
\* A caller of Memory.remember keeps its Evidence and Decision objects and
\* may change them afterwards.

\* memory.remember(e, d) with the objects the caller holds
CallerRemember == MemoryRemember(held.evidence, held.decision)

\* e.confidence = c
MutateEvidence(c) ==
    /\ c # held.evidence.confidence
    /\ held' = [held EXCEPT !.evidence.confidence = c]
    /\ UNCHANGED <<storeVars, healthVars, batchVars, heap, loopVars>>

\* d.confidence = c
MutateDecision(c) ==
    /\ c # held.decision.confidence
    /\ held' = [held EXCEPT !.decision.confidence = c]
    /\ UNCHANGED <<storeVars, healthVars, batchVars, heap, loopVars>>

\* e.metrics["activity"] = v
MutateMetrics(v) ==
    /\ v # heap[held.evidence.metrics].activity
    /\ heap' = [heap EXCEPT ![held.evidence.metrics] = [activity |-> v]]
    /\ UNCHANGED <<storeVars, healthVars, batchVars, held, loopVars>>

NextAlias ==
    \/ CallerRemember
    \/ \E c \in {300, 800} : MutateEvidence(c)
    \/ \E c \in {300, 500} : MutateDecision(c)
    \/ \E v \in {5, 7} : MutateMetrics(v)

SpecAlias == Init /\ [][NextAlias]_vars

\* ----------------------------------------------------------- event loop
\* Several POST /evidence/batch requests and GET /metrics on the one event
\* loop of the server.  A handler is a coroutine: once the loop runs it,
\* no other coroutine runs until it suspends.  Here remember() is taken
\* apart into its two statements, the append and the eviction.

\* memory_entry = {...}; self.memories.append(memory_entry)
AppendEntry(mem, e, d, t, serial) ==
    Append(mem, [evidence |-> EvidenceToDict(e),
                 decision |-> DecisionToDict(d),
                 timestamp |-> IsoFormat(t),
                 weight |-> WeightScale,
                 serial |-> serial])

\* if len(self.memories) > self.max_size: self.memories.pop(0)
EvictOldest(mem, maxsz) == IF Len(mem) > maxsz THEN Tail(mem) ELSE mem

\* Whether a handler at pc has given the event loop back.  Its only await,
\* on process_evidence, is on a coroutine that never suspends: the handler
\* holds the loop from its first statement to its return.
SuspendsAnywhere(pc) == TRUE

Suspends(pc) == pc \in {"idle", "done"}

\* The items the task t has still to process.
Todo(t) ==
    IF tasks[t].pc \in {"idle", "done"} THEN 0 ELSE Len(tasks[t].todo)

RECURSIVE Pending(_)
Pending(S) ==
    IF S = {} THEN 0
    ELSE LET t == CHOOSE x \in S : TRUE IN Todo(t) + Pending(S \ {t})

MayRun(t) == running \in {"none", t}

Resume(t, pc) == IF Suspends(pc) THEN "none" ELSE t

\* The loop starts the handler of task t on the body b.
Receive(t, b) ==
    /\ tasks[t].pc = "idle"
    /\ MayRun(t)
    /\ ncalls + Pending(TaskIds) + Len(b) <= MaxCalls
    /\ tasks' = [tasks EXCEPT ![t] =
                    [pc |-> "loop", todo |-> b, decisions |-> <<>>]]
    /\ running' = Resume(t, "loop")
    /\ UNCHANGED <<storeVars, healthVars, batchVars, callerVars>>

\* The head of the for loop: the conversions of the next item and the
\* Decision of process_evidence, or the end of the handler.
Convert(t) ==
    /\ tasks[t].pc = "loop"
    /\ MayRun(t)
    /\ LET todo == tasks[t].todo
       IN  IF todo = <<>>
           THEN tasks' = [tasks EXCEPT ![t] =
                             [pc |-> "done", code |-> 200,
                              decisions |-> tasks[t].decisions]]
           ELSE IF ~ThreatLevelKnown(Head(todo).threat_level)
           THEN tasks' = [tasks EXCEPT ![t] =
                             [pc |-> "done", code |-> 503,
                              decisions |-> <<>>]]
           ELSE tasks' = [tasks EXCEPT ![t] =
                             [pc |-> "append", todo |-> todo,
                              decisions |-> tasks[t].decisions,
                              evidence |-> ToEvidence(Head(todo)),
                              decision |->
                                  MakeDecision(ToEvidence(Head(todo)), now)]]
    /\ running' = Resume(t, tasks'[t].pc)
    /\ UNCHANGED <<storeVars, healthVars, batchVars, callerVars>>

\* remember(): the append
AppendStep(t) ==
    /\ tasks[t].pc = "append"
    /\ MayRun(t)
    /\ memories' = AppendEntry(memories, tasks[t].evidence,
                               tasks[t].decision, now, ncalls + 1)
    /\ ncalls' = ncalls + 1
    /\ issued' = Append(issued, tasks[t].decision.decision_id)
    /\ last' = [called |-> TRUE, evidence |-> tasks[t].evidence,
                decision |-> tasks[t].decision]
    /\ decayedAt' = -1
    /\ tasks' = [tasks EXCEPT ![t].pc = "evict"]
    /\ running' = Resume(t, "evict")
    /\ UNCHANGED <<max_size, now, ndecays, healthVars, batchVars, callerVars>>

\* remember(): the eviction; then decisions.append(decision.to_dict())
EvictStep(t) ==
    /\ tasks[t].pc = "evict"
    /\ MayRun(t)
    /\ memories' = EvictOldest(memories, max_size)
    /\ tasks' = [tasks EXCEPT ![t] =
                    [pc |-> "loop", todo |-> Tail(tasks[t].todo),
                     decisions |-> Append(tasks[t].decisions,
                                          DecisionToDict(tasks[t].decision))]]
    /\ running' = Resume(t, "loop")
    /\ UNCHANGED <<max_size, now, ncalls, ndecays, issued, last, decayedAt,
                   healthVars, batchVars, callerVars>>

\* The loop runs the handler of GET /metrics.
MetricsRequest(s) ==
    /\ running = "none"
    /\ GetMetrics(s)

NextLoop ==
    \/ \E t \in TaskIds, b \in Batches : Receive(t, b)
    \/ \E t \in TaskIds : Convert(t)
    \/ \E t \in TaskIds : AppendStep(t)
    \/ \E t \in TaskIds : EvictStep(t)
    \/ \E s \in ProbeSamples : MetricsRequest(s)

SpecLoop == Init /\ [][NextLoop]_vars

\* ---------------------------------------------------------------- claims
Called == last.called

\* C1. Capacity invariant: after any sequence of remember() and
\* decay_memories() calls on a Memory with max_size >= 1, the store holds
\* at most max_size entries.
C1_Capacity == max_size >= 1 => Len(memories) <= max_size

\* An overflowing insertion has happened, a decay too, and the store is full.
C1_Witness == ncalls > max_size /\ ndecays > 0 /\ Len(memories) = max_size

\* C2. FIFO eviction: after N > max_size remember() calls on an initially
\* empty Memory the store holds exactly max_size entries, and they are the
\* max_size most recent insertions in insertion order.
C2_FifoEviction ==
    ncalls > max_size =>
        /\ Len(memories) = max_size
        /\ \A i \in 1..max_size :
               memories[i].serial = ncalls - max_size + i

\* More insertions than a capacity of two or more: the order is at stake.
C2_Witness ==
    /\ max_size > 1
    /\ ncalls > max_size
    /\ Len(memories) = max_size
    /\ memories[1].serial = ncalls - max_size + 1

\* C3. CRITICAL evidence with confidence >= 0.8 gives a Decision with
\* action ISOLATE and confidence min(confidence + 0.1, 1.0).
C3_CriticalHigh ==
    (Called /\ last.evidence.threat_level = "CRITICAL"
            /\ last.evidence.confidence >= 800) =>
        /\ last.decision.action = "ISOLATE"
        /\ last.decision.confidence =
               Min(last.evidence.confidence + 100, ConfScale)

\* C4. BENIGN evidence gives a Decision with action MONITOR and
\* confidence = evidence confidence x 0.8.
C4_Benign ==
    (Called /\ last.evidence.threat_level = "BENIGN") =>
        /\ last.decision.action = "MONITOR"
        /\ 10 * last.decision.confidence = 8 * last.evidence.confidence

\* C5. SUSPICIOUS evidence: confidence >= 0.6 gives ALERT with the evidence
\* confidence; confidence < 0.6 gives MONITOR with confidence x 0.8.
C5_Suspicious ==
    (Called /\ last.evidence.threat_level = "SUSPICIOUS") =>
        IF last.evidence.confidence >= 600
        THEN /\ last.decision.action = "ALERT"
             /\ last.decision.confidence = last.evidence.confidence
        ELSE /\ last.decision.action = "MONITOR"
             /\ 10 * last.decision.confidence = 8 * last.evidence.confidence

\* C6. CRITICAL evidence with confidence < 0.8 gives a Decision with action
\* BLOCK and confidence exactly the evidence confidence.
C6_CriticalLow ==
    (Called /\ last.evidence.threat_level = "CRITICAL"
            /\ last.evidence.confidence < 800) =>
        /\ last.decision.action = "BLOCK"
        /\ last.decision.confidence = last.evidence.confidence

\* C7. For evidence of any of the three threat levels with confidence in
\* [0.0, 1.0], the Decision's confidence is in [0.0, 1.0].
C7_ConfidenceRange ==
    (Called /\ last.evidence.threat_level \in ThreatLevel
            /\ last.evidence.confidence \in 0..ConfScale) =>
        last.decision.confidence \in 0..ConfScale

\* CRITICAL evidence at confidence 1.0, where confidence + 0.1 exceeds 1.0.
C7_Witness ==
    /\ Called
    /\ last.evidence.threat_level = "CRITICAL"
    /\ last.evidence.confidence = ConfScale
    /\ last.decision.confidence = ConfCap

\* C8. decision_id uniqueness: the Decisions of two distinct
\* process_evidence calls have different decision_id values.
C8_UniqueDecisionIds ==
    \A i, j \in DOMAIN issued : i # j => issued[i] # issued[j]

Weights(mem) == [i \in DOMAIN mem |-> mem[i].weight]

\* C9. Decay idempotence: with the clock held fixed, a second decay call
\* right after a first leaves every stored weight as the first left it.
C9_DecayIdempotent ==
    [][(decayedAt = now /\ decayedAt' = now') =>
           Weights(memories') = Weights(memories)]_vars

\* C10. Weight bounds: every stored weight lies in [weight_floor, 1.0],
\* where weight_floor = 0.1 (entries start at 1.0 and no decay call takes a
\* weight below the floor or raises it).
C10_WeightBounds ==
    \A i \in DOMAIN memories :
        /\ memories[i].weight >= WeightScale \div 10
        /\ memories[i].weight <= WeightScale

\* Whether the list ps holds the problem p.
Reports(ps, p) == \E i \in DOMAIN ps : ps[i] = p

\* C11. Threshold diagnosis: each resource (CPU, memory, disk) is reported
\* as a problem if and only if its sampled usage is at or above 90%.
C11_ThresholdDiagnosis ==
    (hop = "diagnose_problems" /\ sample.fails = "none") =>
        /\ Reports(problems, HighCpu) <=> sample.cpu >= 90
        /\ Reports(problems, HighMemory) <=> sample.memory >= 90
        /\ Reports(problems, HighDisk) <=> sample.disk >= 90

\* C12. self_heal returns one action per problem of its input, in order:
\* "throttle processing" for the CPU problem, "clear cache" for the memory
\* problem and "rotate/clean logs" for the disk problem.
C12_SelfHealMapping ==
    hop = "self_heal" =>
        /\ Len(healing.actions) = Len(healing.input)
        /\ \A i \in DOMAIN healing.input :
               i \in DOMAIN healing.actions =>
                   healing.actions[i] =
                       CASE healing.input[i] = HighCpu ->
                                "throttle processing"
                         [] healing.input[i] = HighMemory -> "clear cache"
                         [] healing.input[i] = HighDisk ->
                                "rotate/clean logs"

\* C13. monitor_health fails soft: it never raises and always returns a
\* snapshot with cpu_usage, memory_usage and disk_usage; when a sampling
\* fails the three values are zero and status is "error", which no
\* successful snapshot has.
C13_MonitorFailsSoft ==
    hop \in {"monitor_health", "diagnose_problems", "health_check",
             "get_metrics"} =>
        /\ ~health.raised
        /\ {"cpu_usage", "memory_usage", "disk_usage"}
               \subseteq DOMAIN health.value
        /\ sample.fails # "none" =>
               /\ health.value.cpu_usage = 0
               /\ health.value.memory_usage = 0
               /\ health.value.disk_usage = 0
               /\ health.value.status = "error"
        /\ sample.fails = "none" => health.value.status # "error"

\* monitor_health has returned after the memory sampling failed.
C13_Witness ==
    /\ hop = "monitor_health"
    /\ sample.fails = "memory"
    /\ ~health.raised
    /\ health.value.status = "error"

\* C19. Health path independence: a step of monitor_health,
\* diagnose_problems, self_heal, GET /health or GET /metrics leaves the
\* Memory Store (entries, order, weights, capacity) and the record of the
\* decisions made unchanged.
C19_HealthPathFrame ==
    [][healthVars' # healthVars =>
           /\ memories' = memories
           /\ max_size' = max_size
           /\ issued' = issued
           /\ last' = last]_vars

\* self_heal has returned actions while the store held a decayed entry.
C19_Witness ==
    /\ hop = "self_heal"
    /\ healing.actions # <<>>
    /\ Len(memories) > 0
    /\ memories[1].weight < WeightScale

\* An entry without its weight.
Unweighted(entry) ==
    [evidence |-> entry.evidence, decision |-> entry.decision,
     timestamp |-> entry.timestamp, serial |-> entry.serial]

Unweighteds(mem) == [i \in DOMAIN mem |-> Unweighted(mem[i])]

\* C18. Decay never deletes: a decay call leaves the number of entries,
\* their order and their evidence, decision and timestamp unchanged; an
\* entry leaves the store only in a remember() call on a full store.
C18_DecayNeverDeletes ==
    [][/\ ndecays' # ndecays => Unweighteds(memories') = Unweighteds(memories)
       /\ (\E i \in DOMAIN memories :
              \A j \in DOMAIN memories' :
                  memories'[j].serial # memories[i].serial)
          => (ncalls' = ncalls + 1 /\ Len(memories) = max_size)]_vars

\* Two decays have acted on an entry that is still stored.
C18_Witness ==
    /\ ndecays >= 2
    /\ Len(memories) > 0
    /\ DecayWeight(DecayWeight(WeightScale)) = memories[1].weight

\* A valid item: a threat level of the closed set, a confidence in [0, 1].
ValidItem(item) ==
    /\ item.threat_level \in {"benign", "suspicious", "critical"}
    /\ item.confidence \in 0..ConfScale

\* The index of the first item of b whose conversion raises, 0 if none.
FirstRaising(b) ==
    IF \A i \in DOMAIN b : ThreatLevelKnown(b[i].threat_level) THEN 0
    ELSE CHOOSE k \in DOMAIN b :
             /\ ~ThreatLevelKnown(b[k].threat_level)
             /\ \A i \in 1..(k - 1) : ThreatLevelKnown(b[i].threat_level)

\* C14. Batch submission: a batch of n valid items gets exactly n Decisions
\* in input order, Decision i with the entity_id of item i and
\* evidence_count 1, and the store gains one entry per item (its length
\* grows by n when it had n free slots).
C14_BatchSubmission ==
    (response.called /\ \A i \in DOMAIN batch : ValidItem(batch[i])) =>
        /\ response.code = 200
        /\ Len(response.decisions) = Len(batch)
        /\ \A i \in DOMAIN batch :
               /\ response.decisions[i].entity_id = batch[i].entity_id
               /\ response.decisions[i].evidence_count = 1
        /\ processed = Len(batch)
        /\ lenBefore + Len(batch) <= max_size =>
               Len(memories) = lenBefore + Len(batch)
        /\ \A j \in 1..Min(Len(batch), max_size) :
               memories[Len(memories) - j + 1].evidence =
                   EvidenceToDict(ToEvidence(batch[Len(batch) - j + 1]))

\* The two valid items of different entities, in a store with room for both.
C14_Witness ==
    /\ response.called
    /\ Len(batch) = 2
    /\ \A i \in DOMAIN batch : ValidItem(batch[i])
    /\ batch[1].entity_id # batch[2].entity_id
    /\ Len(memories) = lenBefore + 2

\* C15. Boundary validation: an item with an unknown threat level or a
\* confidence outside [0.0, 1.0] never reaches process_evidence: no
\* Decision is made and no Memory entry recorded for it.
C15_BoundaryValidation ==
    response.called =>
        \A i \in DOMAIN batch : ~ValidItem(batch[i]) => processed < i

StoredView(mem, hp) ==
    [i \in DOMAIN mem |->
        [mem[i] EXCEPT !.evidence.metrics = hp[@]]]

\* C17. Snapshot isolation: after remember(evidence, decision) has
\* returned, a mutation of the original evidence (its metrics mapping
\* included) or of the original decision leaves every stored entry as it
\* was.
C17_SnapshotIsolation ==
    [][(ncalls' = ncalls /\ ndecays' = ndecays) =>
           StoredView(memories', heap') = StoredView(memories, heap)]_vars

\* The tasks between the append and the eviction of a remember().
InRemember == {t \in TaskIds : tasks[t].pc = "evict"}

\* C16. Serialized writes and consistent reads: with several batches in
\* progress no two remember() calls are between their append and their
\* eviction at once, no other coroutine runs while one is, and every
\* memory_count GET /metrics reports is at most max_size.
C16_SerializedWrites ==
    /\ Cardinality(InRemember) <= 1
    /\ \A t \in InRemember : running = t
    /\ running = "none" => Len(memories) <= max_size
    /\ (hop = "get_metrics" /\ reply.code = 200) =>
           reply.memory_count <= max_size

\* GET /metrics has read a full store while one batch had overflowed it
\* and another was still to be processed.
C16_Witness ==
    /\ hop = "get_metrics"
    /\ reply.code = 200
    /\ reply.memory_count = max_size
    /\ ncalls > max_size
    /\ \E t \in TaskIds : tasks[t].pc = "idle"
    /\ \E t \in TaskIds : tasks[t].pc = "done"

====
